---- MODULE Spec2Model ----
(***************************************************************************)
(* Model of the Delta table provider of adt                                *)
(* (crates/providers/src/deltatable.rs): schema resolution, scan request   *)
(* building, file enumeration and row-group access planning; and of the    *)
(* Execute command of the CLI (crates/cli/src/main.rs).                    *)
(***************************************************************************)
EXTENDS Integers, Sequences, FiniteSets, TLC

VARIABLES
    selection_vector,   \* raw selection vector handed to get_parquet_access_plan
    row_group_sizes,    \* num_rows of each row group of the parquet file
    access_plan,        \* outcome of get_parquet_access_plan
    rga,                \* last direct call of get_row_group_access
    full_selection,     \* the padded selection vector of the last plan
    log,                \* the Delta log: schema, partition columns, files
    table,              \* the DeltaTable built by DeltaTable::from
    scan,               \* the scan invocations, by scan id
    pushdown,           \* last call of supports_filters_pushdown
    location,           \* a table location and what is made of it
    mapped,             \* a Delta data type and its Arrow mapping
    cli                 \* the Execute command of the CLI on a SQL file

accessVars == <<selection_vector, row_group_sizes, access_plan, rga,
               full_selection>>
scanVars == <<log, table, scan, pushdown>>
otherVars == <<location, mapped, cli>>
vars == <<selection_vector, row_group_sizes, access_plan, rga, full_selection,
          log, table, scan, pushdown, location, mapped, cli>>

(***************************************************************************)
(* Bounds of the model                                                     *)
(***************************************************************************)
MaxRows == 4
MaxGroups == 3
MaxGroupRows == 2
MaxFilters == 2
MaxProjection == 2
MaxFiles == 2
MaxLocationLen == 3
MaxTypeDepth == 2
MaxConcFiles == 2
MaxLines == 3

\* All sequences over S of length at most n
SeqUpTo(S, n) == UNION {[1..k -> S] : k \in 0..n}

RECURSIVE SumSeq(_)
SumSeq(s) == IF s = <<>> THEN 0 ELSE Head(s) + SumSeq(Tail(s))

\* s[from .. to) with 0-based bounds, as a Rust slice
Slice(s, from, to) == SubSeq(s, from + 1, to)

(***************************************************************************)
(* Row Group Access Planner                                                *)
(***************************************************************************)
Skip == [kind |-> "Skip"]
Scan == [kind |-> "Scan"]
Selection(selectors) == [kind |-> "Selection", selectors |-> selectors]
Panic == [kind |-> "Panic"]

RowSelectorSelect(n) == [row_count |-> n, skip |-> FALSE]
RowSelectorSkip(n) == [row_count |-> n, skip |-> TRUE]

\* SlicesIterator: the maximal runs of true of a mask, as 0-based [start, end)
\* ranges in increasing order.
RECURSIVE SlicesFrom(_, _)
SlicesFrom(mask, pos) ==
    IF pos >= Len(mask) THEN <<>>
    ELSE IF ~mask[pos + 1] THEN SlicesFrom(mask, pos + 1)
    ELSE LET ends == {e \in (pos + 1)..Len(mask) :
                          /\ \A k \in (pos + 1)..e : mask[k]
                          /\ (e = Len(mask) \/ ~mask[e + 1])}
             end == CHOOSE e \in ends : TRUE
         IN  <<[start |-> pos, end |-> end]>> \o SlicesFrom(mask, end)

\* RowSelection::from_consecutive_ranges
RECURSIVE FromConsecutiveRanges(_, _, _, _)
FromConsecutiveRanges(ranges, total_rows, last_end, selectors) ==
    IF ranges = <<>>
    THEN IF last_end # total_rows
         THEN Append(selectors, RowSelectorSkip(total_rows - last_end))
         ELSE selectors
    ELSE LET range == Head(ranges)
             len == range.end - range.start
             n == Len(selectors)
             next ==
                IF range.start = last_end
                THEN IF n > 0
                     THEN [selectors EXCEPT ![n].row_count = @ + len]
                     ELSE <<RowSelectorSelect(len)>>
                ELSE selectors \o <<RowSelectorSkip(range.start - last_end),
                                    RowSelectorSelect(len)>>
         IN  FromConsecutiveRanges(Tail(ranges), total_rows, range.end, next)

\* A faulty variant of RowSelectionFromFilters: the trailing skip run is left out
RowSelectionFromFiltersNoTail(mask) ==
    LET ranges == SlicesFrom(mask, 0)
    IN  FromConsecutiveRanges(ranges,
            IF ranges = <<>> THEN 0 ELSE ranges[Len(ranges)].end, 0, <<>>)

\* RowSelection::from_filters(&[mask.into()])
RowSelectionFromFilters(mask) ==
    FromConsecutiveRanges(SlicesFrom(mask, 0), Len(mask), 0, <<>>)

\* A faulty variant of get_row_group_access: the all-selected test comes first
get_row_group_access_scan_first(sv, row_group_row_start, row_group_num_rows) ==
    IF row_group_row_start + row_group_num_rows > Len(sv) THEN Panic
    ELSE LET mask == Slice(sv, row_group_row_start,
                           row_group_row_start + row_group_num_rows)
         IN  IF \A k \in 1..Len(mask) : mask[k] THEN Scan
             ELSE IF \A k \in 1..Len(mask) : ~mask[k] THEN Skip
             ELSE Selection(RowSelectionFromFilters(mask))

\* get_row_group_access; slicing beyond the vector panics
get_row_group_access(sv, row_group_row_start, row_group_num_rows) ==
    IF row_group_row_start + row_group_num_rows > Len(sv) THEN Panic
    ELSE LET mask == Slice(sv, row_group_row_start,
                           row_group_row_start + row_group_num_rows)
         IN  IF \A k \in 1..Len(mask) : ~mask[k] THEN Skip
             ELSE IF \A k \in 1..Len(mask) : mask[k] THEN Scan
             ELSE Selection(RowSelectionFromFilters(mask))

\* A faulty variant of get_full_selection_vector: the rows beyond the raw
\* vector are filled with false
get_full_selection_vector_false(sv, total_rows) ==
    IF Len(sv) > total_rows THEN [status |-> "Panic"]
    ELSE [status |-> "Ok",
          v |-> [k \in 1..total_rows |-> IF k <= Len(sv) THEN sv[k] ELSE FALSE]]

\* get_full_selection_vector; new_selection_vector[..len] panics when the raw
\* vector is longer than total_rows
get_full_selection_vector(sv, total_rows) ==
    IF Len(sv) > total_rows THEN [status |-> "Panic"]
    ELSE [status |-> "Ok",
          v |-> [k \in 1..total_rows |-> IF k <= Len(sv) THEN sv[k] ELSE TRUE]]

\* A faulty variant of RowGroupLoop: row_group_row_start is not advanced
RECURSIVE RowGroupLoopNoAdvance(_, _, _, _)
RowGroupLoopNoAdvance(full, sizes, row_group_row_start, row_groups) ==
    IF sizes = <<>> THEN row_groups
    ELSE RowGroupLoopNoAdvance(full, Tail(sizes), row_group_row_start,
            Append(row_groups,
                   get_row_group_access(full, row_group_row_start, Head(sizes))))

\* The loop of get_parquet_access_plan over the row groups
RECURSIVE RowGroupLoop(_, _, _, _)
RowGroupLoop(full, sizes, row_group_row_start, row_groups) ==
    IF sizes = <<>> THEN row_groups
    ELSE RowGroupLoop(full, Tail(sizes), row_group_row_start + Head(sizes),
            Append(row_groups,
                   get_row_group_access(full, row_group_row_start, Head(sizes))))

\* get_parquet_access_plan: Err when the metadata fetch fails, a panic when
\* padding or slicing panics, else Ok(ParquetAccessPlan)
get_parquet_access_plan(meta_ok, sizes, sv) ==
    IF ~meta_ok THEN [status |-> "Err", error |-> "Error getting parquet metadata"]
    ELSE LET total_rows == SumSeq(sizes)
             full == get_full_selection_vector(sv, total_rows)
         IN  IF full.status = "Panic" THEN [status |-> "Panic"]
             ELSE LET row_groups == RowGroupLoop(full.v, sizes, 0, <<>>)
                  IN  IF \E g \in 1..Len(row_groups) : row_groups[g] = Panic
                      THEN [status |-> "Panic"]
                      ELSE [status |-> "Ok", row_groups |-> row_groups]

NotCalled == [status |-> "NotCalled"]

(***************************************************************************)
(* Type Mapper                                                             *)
(***************************************************************************)
Primitive(name) == [kind |-> "Primitive", type |-> name]
Decimal(p, s) == [kind |-> "Primitive", type |-> "Decimal", precision |-> p, scale |-> s]
ArrayType(element_type, contains_null) ==
    [kind |-> "Array", element_type |-> element_type, contains_null |-> contains_null]
StructType(fields) == [kind |-> "Struct", fields |-> fields]
MapType(key_type, value_type) ==
    [kind |-> "Map", key_type |-> key_type, value_type |-> value_type]

\* StructField of the log schema and Field of the engine schema
StructField(name, data_type, nullable) ==
    [name |-> name, data_type |-> data_type, nullable |-> nullable]
Field(name, data_type, nullable) ==
    [name |-> name, data_type |-> data_type, nullable |-> nullable]

Arrow(k) == [kind |-> k]

\* u8 as i8
AsI8(n) == IF n % 256 >= 128 THEN (n % 256) - 256 ELSE n % 256

RECURSIVE map_delta_data_type_to_arrow_data_type(_)
RECURSIVE MapStructFields(_)

\* A faulty variant of MapStructFields: every mapped field is nullable
MapStructFieldsNullable(fields) ==
    [i \in 1..Len(fields) |->
        Field(fields[i].name,
              map_delta_data_type_to_arrow_data_type(fields[i].data_type),
              TRUE)]

\* The struct arm of the mapper: one mapped Field per field, in order
MapStructFields(fields) ==
    IF fields = <<>> THEN <<>>
    ELSE <<Field(Head(fields).name,
                 map_delta_data_type_to_arrow_data_type(Head(fields).data_type),
                 Head(fields).nullable)>> \o MapStructFields(Tail(fields))

map_delta_data_type_to_arrow_data_type(t) ==
    CASE t.kind = "Primitive" ->
           (CASE t.type = "String" -> Arrow("Utf8")
              [] t.type = "Long" -> Arrow("Int64")
              [] t.type = "Integer" -> Arrow("Int32")
              [] t.type = "Short" -> Arrow("Int16")
              [] t.type = "Byte" -> Arrow("Int8")
              [] t.type = "Float" -> Arrow("Float32")
              [] t.type = "Double" -> Arrow("Float64")
              [] t.type = "Boolean" -> Arrow("Boolean")
              [] t.type = "Binary" -> Arrow("Binary")
              [] t.type = "Date" -> Arrow("Date32")
              [] t.type = "Timestamp" ->
                   [kind |-> "Timestamp", unit |-> "Microsecond", tz |-> <<"UTC">>]
              [] t.type = "TimestampNtz" ->
                   [kind |-> "Timestamp", unit |-> "Microsecond", tz |-> <<>>]
              [] t.type = "Decimal" ->
                   [kind |-> "Decimal128", precision |-> t.precision,
                    scale |-> AsI8(t.scale)])
      [] t.kind = "Array" ->
           [kind |-> "List",
            field |-> Field("item",
                            map_delta_data_type_to_arrow_data_type(t.element_type),
                            t.contains_null)]
      [] t.kind = "Struct" ->
           [kind |-> "Struct", fields |-> MapStructFields(t.fields)]
      [] t.kind = "Map" ->
           [kind |-> "Map",
            field |-> Field("key_value",
                            [kind |-> "Struct",
                             fields |-> <<Field("key",
                                   map_delta_data_type_to_arrow_data_type(t.key_type),
                                   FALSE),
                                 Field("value",
                                   map_delta_data_type_to_arrow_data_type(t.value_type),
                                   TRUE)>>],
                            FALSE),
            sorted |-> FALSE]

(***************************************************************************)
(* Schema Resolver                                                         *)
(***************************************************************************)
\* Names of the fields of a schema, in order
FieldNames(fields) == [i \in 1..Len(fields) |-> fields[i].name]

\* Vec::contains / membership of a name in a list of names
Contains(names, name) == \E i \in 1..Len(names) : names[i] = name

\* Schema::field(name): the index of the field called name, 0 when absent
FieldIndex(fields, name) ==
    IF \E i \in 1..Len(fields) : fields[i].name = name
    THEN CHOOSE i \in 1..Len(fields) : fields[i].name = name
    ELSE 0

\* The filter + map + collect of a schema's fields
RECURSIVE MapFields(_, _)
MapFields(fields, excluded) ==
    IF fields = <<>> THEN <<>>
    ELSE (IF Contains(excluded, Head(fields).name) THEN <<>>
          ELSE <<Field(Head(fields).name,
                       map_delta_data_type_to_arrow_data_type(Head(fields).data_type),
                       Head(fields).nullable)>>)
         \o MapFields(Tail(fields), excluded)

\* DeltaTable::get_schema: every field of the log schema, in log order
get_schema(snapshot) == MapFields(snapshot.schema, <<>>)

\* A faulty variant of get_file_schema: the partition columns are not filtered out
get_file_schema_unfiltered(snapshot) == MapFields(snapshot.schema, <<>>)

\* DeltaTable::get_file_schema: the fields that are no partition column
get_file_schema(snapshot) == MapFields(snapshot.schema, snapshot.partition_columns)

\* DeltaTable::get_partition_schema: one field per partition column, in
\* partition-column order (schema.field(col).unwrap() is guarded by the caller)
get_partition_schema(snapshot) ==
    [i \in 1..Len(snapshot.partition_columns) |->
        LET dk_field == snapshot.schema[FieldIndex(snapshot.schema,
                                                   snapshot.partition_columns[i])]
        IN  Field(dk_field.name,
                  map_delta_data_type_to_arrow_data_type(dk_field.data_type),
                  dk_field.nullable)]

\* DeltaTable::from: Err when the log cannot be opened, a panic when a
\* partition column is not a field of the schema, else the table
DeltaTable_from(lg) ==
    IF ~lg.readable THEN [status |-> "Err"]
    ELSE IF \E i \in 1..Len(lg.partition_columns) :
               FieldIndex(lg.schema, lg.partition_columns[i]) = 0
    THEN [status |-> "Panic"]
    ELSE [status |-> "Ok",
          arrow_schema |-> get_schema(lg),
          arrow_file_schema |-> get_file_schema(lg),
          arrow_partition_cols |-> get_partition_schema(lg),
          delta_schema |-> lg.schema]

\* TableProvider::schema
schema(t) == t.arrow_schema

\* str::ends_with on a location held as its sequence of characters
ends_with(str, c) == str /= <<>> /\ str[Len(str)] = c

\* A faulty variant of ensure_folder_location: the separator is appended
\* whatever the location ends with
ensure_folder_location_appending(table_location) ==
    Append(table_location, "/")

\* ensure_folder_location: the location itself when it ends with the
\* separator, else the location followed by one separator
ensure_folder_location(table_location) ==
    IF ends_with(table_location, "/") THEN table_location
    ELSE Append(table_location, "/")

(***************************************************************************)
(* Scan Request Builder                                                    *)
(***************************************************************************)
None == [kind |-> "None"]
Some(v) == [kind |-> "Some", v |-> v]

\* The filter_map of project_delta_schema: the log-schema field named like
\* the arrow_schema field at each projected (0-based) index, when there is one
RECURSIVE ProjectFields(_, _, _)
ProjectFields(arrow_schema, delta_schema, projections) ==
    IF projections = <<>> THEN <<>>
    ELSE LET name == arrow_schema[Head(projections) + 1].name
             idx == FieldIndex(delta_schema, name)
         IN  (IF idx = 0 THEN <<>> ELSE <<delta_schema[idx]>>)
             \o ProjectFields(arrow_schema, delta_schema, Tail(projections))

\* A faulty variant of project_delta_schema: the projection is ignored
project_delta_schema_full(arrow_schema, delta_schema, projections) == delta_schema

\* project_delta_schema
project_delta_schema(arrow_schema, delta_schema, projections) ==
    IF projections.kind = "Some"
    THEN ProjectFields(arrow_schema, delta_schema, projections.v)
    ELSE delta_schema

\* Filter expressions of the engine
Column(name) == [kind |-> "Column", name |-> name]
And(left, right) == [kind |-> "BinaryExpr", op |-> "And", left |-> left, right |-> right]
Or(left, right) == [kind |-> "BinaryExpr", op |-> "Or", left |-> left, right |-> right]
lit(value) == [kind |-> "Literal", value |-> value]

\* filters.into_iter().reduce(Expr::and), given the accumulator so far
RECURSIVE ReduceAnd(_, _)
ReduceAnd(acc, filters) ==
    IF filters = <<>> THEN acc
    ELSE ReduceAnd(And(acc, Head(filters)), Tail(filters))

RECURSIVE ReduceOr(_, _)
ReduceOr(acc, filters) ==
    IF filters = <<>> THEN acc
    ELSE ReduceOr(Or(acc, Head(filters)), Tail(filters))

\* A faulty variant of conjunction: the filters are combined with OR
disjunction(filters) ==
    IF filters = <<>> THEN None
    ELSE Some(ReduceOr(Head(filters), Tail(filters)))

\* datafusion::logical_expr::utils::conjunction
conjunction(filters) ==
    IF filters = <<>> THEN None
    ELSE Some(ReduceAnd(Head(filters), Tail(filters)))

\* conjunction(filters.to_vec()).unwrap_or_else(|| lit(true))
ScanFilter(filters) ==
    LET c == conjunction(filters)
    IN  IF c.kind = "Some" THEN c.v ELSE lit(TRUE)

\* state.create_physical_expr: the physical expression of a logical one
RECURSIVE create_physical_expr(_)
create_physical_expr(e) ==
    CASE e.kind = "Column" -> [kind |-> "PhysicalColumn", name |-> e.name]
      [] e.kind = "Literal" -> [kind |-> "PhysicalLiteral", value |-> e.value]
      [] e.kind = "BinaryExpr" ->
           [kind |-> "PhysicalBinaryExpr", op |-> e.op,
            left |-> create_physical_expr(e.left),
            right |-> create_physical_expr(e.right)]

\* A faulty variant of supports_filters_pushdown: the filters are reported Exact
supports_filters_pushdown_exact(filters) ==
    [status |-> "Ok", v |-> [i \in 1..Len(filters) |-> "Exact"]]

\* supports_filters_pushdown: vec![Inexact; filters.len()]
supports_filters_pushdown(filters) ==
    [status |-> "Ok", v |-> [i \in 1..Len(filters) |-> "Inexact"]]

(***************************************************************************)
(* File Enumerator                                                         *)
(***************************************************************************)
\* str::parse of the partition value strings of the model
ParseInt(value) ==
    CASE value = "7" -> [ok |-> TRUE, v |-> 7]
      [] value = "8" -> [ok |-> TRUE, v |-> 8]
      [] OTHER -> [ok |-> FALSE]

\* ScalarValue::try_from_string(value, target_type)
try_from_string(value, target_type) ==
    CASE target_type.kind = "Utf8" ->
           [ok |-> TRUE, scalar |-> [type |-> "Utf8", value |-> <<value>>]]
      [] target_type.kind \in {"Int8", "Int16", "Int32", "Int64"} ->
           (IF ParseInt(value).ok
            THEN [ok |-> TRUE,
                  scalar |-> [type |-> target_type.kind, value |-> ParseInt(value).v]]
            ELSE [ok |-> FALSE])
      [] OTHER -> [ok |-> FALSE]

\* The partition value of one column: partition_values[col] panics on an
\* absent key, logical_schema.fields[col] panics on a column that is not in
\* the scan's logical schema, unwrap() panics on a value that does not parse
PartitionValue(scan_state, partition_values, col) ==
    IF col \notin DOMAIN partition_values THEN [ok |-> FALSE]
    ELSE IF FieldIndex(scan_state.logical_schema, col) = 0 THEN [ok |-> FALSE]
    ELSE try_from_string(partition_values[col],
            map_delta_data_type_to_arrow_data_type(
                scan_state.logical_schema[FieldIndex(scan_state.logical_schema, col)].data_type))

\* A faulty variant of PartitionValues: the values are collected in reverse order
PartitionValuesReversed(scan_state, partition_values) ==
    LET n == Len(scan_state.partition_columns)
    IN  [i \in 1..n |->
            PartitionValue(scan_state, partition_values,
                           scan_state.partition_columns[n + 1 - i])]

\* scan_state.partition_columns.iter().map(..).collect()
PartitionValues(scan_state, partition_values) ==
    [i \in 1..Len(scan_state.partition_columns) |->
        PartitionValue(scan_state, partition_values, scan_state.partition_columns[i])]

\* PartitionedFile::new(path, size) with its partition values set
PartitionedFile(path, size, partition_values) ==
    [path |-> path, size |-> size, partition_values |-> partition_values,
     extensions |-> None]

\* A faulty variant of PushFile: the file is put in front of the list
PushFileFirst(files, file) == <<file>> \o files

\* scan_context.files.push(..)
PushFile(files, file) == Append(files, file)

\* handle_scan_file: a panic, or the scan context after the callback
handle_scan_file(scan_context, scan_state, file) ==
    IF ~scan_state.table_root.valid
    THEN [status |-> "Ok",
          ctx |-> [scan_context EXCEPT
                     !.errs = Append(@, <<"Error parsing table root URL", file.path>>)]]
    ELSE LET path == <<scan_state.table_root.path, "/", file.path>>
             values == PartitionValues(scan_state, file.partition_values)
         IN  IF \E i \in 1..Len(values) : ~values[i].ok THEN [status |-> "Panic"]
             ELSE IF file.dv.kind = "Err"
             THEN [status |-> "Ok",
                   ctx |-> [scan_context EXCEPT
                              !.errs = Append(@, <<"Error getting selection vector", file.path>>)]]
             ELSE [status |-> "Ok",
                   ctx |-> [scan_context EXCEPT
                              !.files = PushFile(@,
                                 [partitioned_file |->
                                     PartitionedFile(path, file.size,
                                        [i \in 1..Len(values) |-> values[i].scalar]),
                                  selection_vector |-> file.dv])]]

(***************************************************************************)
(* Specification of access planning for one file: the inputs are drawn at  *)
(* the start, then get_parquet_access_plan runs on them, or                *)
(* get_row_group_access is called directly as the unit tests do.           *)
(***************************************************************************)
\* The location and type-mapping variables while neither is exercised
IdleOtherVars ==
    /\ location = NotCalled
    /\ mapped = NotCalled
    /\ cli = NotCalled

\* The scan variables while only the access planner is exercised
IdleScanVars ==
    /\ log = <<>>
    /\ table = NotCalled
    /\ scan = <<>>
    /\ pushdown = NotCalled

\* The file of the end-to-end scenario: 2 row groups of 100 rows, rows
\* 150-199 deleted
ScenarioSizes == <<100, 100>>
ScenarioSelection == [k \in 1..200 |-> k <= 150]

InitAccess ==
    /\ \/ /\ selection_vector \in SeqUpTo(BOOLEAN, MaxRows)
          /\ row_group_sizes \in SeqUpTo(0..MaxGroupRows, MaxGroups)
       \/ /\ selection_vector = ScenarioSelection
          /\ row_group_sizes = ScenarioSizes
    /\ access_plan = NotCalled
    /\ rga = NotCalled
    /\ full_selection = NotCalled
    /\ IdleScanVars
    /\ IdleOtherVars

PlanAccess ==
    /\ access_plan = NotCalled
    /\ rga = NotCalled
    /\ \E meta_ok \in BOOLEAN :
          /\ access_plan' = get_parquet_access_plan(meta_ok, row_group_sizes,
                                                    selection_vector)
          /\ full_selection' =
                IF meta_ok
                THEN get_full_selection_vector(selection_vector,
                                               SumSeq(row_group_sizes))
                ELSE NotCalled
    /\ UNCHANGED <<selection_vector, row_group_sizes, rga>>
    /\ UNCHANGED scanVars
    /\ UNCHANGED otherVars

CallRowGroupAccess ==
    /\ Len(selection_vector) <= MaxRows
    /\ access_plan = NotCalled
    /\ rga = NotCalled
    /\ \E start \in 0..Len(selection_vector) :
         \E count \in 0..(Len(selection_vector) - start + 1) :
            rga' = [status |-> "Called", start |-> start, count |-> count,
                    res |-> get_row_group_access(selection_vector, start, count)]
    /\ UNCHANGED <<selection_vector, row_group_sizes, access_plan,
                   full_selection>>
    /\ UNCHANGED scanVars
    /\ UNCHANGED otherVars

NextAccess == PlanAccess \/ CallRowGroupAccess

SpecAccess == InitAccess /\ [][NextAccess]_vars

(***************************************************************************)
(* Properties of the Row Group Access Planner                              *)
(***************************************************************************)
AllTrue(mask) == \A k \in 1..Len(mask) : mask[k]
AllFalse(mask) == \A k \in 1..Len(mask) : ~mask[k]
Mixed(mask) == (\E k \in 1..Len(mask) : mask[k]) /\ (\E k \in 1..Len(mask) : ~mask[k])

\* The rows a run-length selector selects (TRUE) and skips (FALSE)
RECURSIVE ApplySelector(_)
ApplySelector(selectors) ==
    IF selectors = <<>> THEN <<>>
    ELSE [k \in 1..Head(selectors).row_count |-> ~Head(selectors).skip]
           \o ApplySelector(Tail(selectors))

RECURSIVE RunLengthSum(_)
RunLengthSum(selectors) ==
    IF selectors = <<>> THEN 0
    ELSE Head(selectors).row_count + RunLengthSum(Tail(selectors))

\* access is Selection(selector), the selector's runs alternate, sum to the
\* slice's length and select exactly the true positions of the slice
SelectsExactly(access, mask) ==
    /\ access.kind = "Selection"
    /\ \A i \in 1..Len(access.selectors) : access.selectors[i].row_count > 0
    /\ \A i \in 1..(Len(access.selectors) - 1) :
          access.selectors[i].skip # access.selectors[i + 1].skip
    /\ RunLengthSum(access.selectors) = Len(mask)
    /\ ApplySelector(access.selectors) = mask

\* The selection vector extended with true up to the file's total rows
PaddedSelection ==
    [k \in 1..SumSeq(row_group_sizes) |->
        IF k <= Len(selection_vector) THEN selection_vector[k] ELSE TRUE]

\* First row of row group g: the rows of the groups before it
GroupStart(g) == SumSeq(SubSeq(row_group_sizes, 1, g - 1))

\* The slice of the padded selection that belongs to row group g
GroupSlice(g) ==
    Slice(PaddedSelection, GroupStart(g), GroupStart(g) + row_group_sizes[g])

RgaInBounds == rga.status = "Called" /\ rga.start + rga.count <= Len(selection_vector)

RgaSlice == Slice(selection_vector, rga.start, rga.start + rga.count)

\* C1: for every row group whose slice holds at least one true and at least
\* one false, get_row_group_access returns Selection(selector), the selector
\* being alternating select/skip runs that sum to count and select exactly
\* the true positions; [true,true,true,false,true] gives select(3), skip(1),
\* select(1).
C1_MixedSliceSelector ==
    /\ (RgaInBounds /\ Mixed(RgaSlice)) => SelectsExactly(rga.res, RgaSlice)
    /\ access_plan.status = "Ok" =>
          \A g \in 1..Len(row_group_sizes) :
             Mixed(GroupSlice(g)) => SelectsExactly(access_plan.row_groups[g], GroupSlice(g))
    /\ get_row_group_access(<<TRUE, TRUE, TRUE, FALSE, TRUE>>, 0, 5)
          = Selection(<<RowSelectorSelect(3), RowSelectorSkip(1), RowSelectorSelect(1)>>)

\* A direct call on a mixed slice that starts with deleted rows and lies
\* inside the vector, answered with at least three runs
C1_Witness ==
    /\ RgaInBounds
    /\ rga.start > 0
    /\ Mixed(RgaSlice)
    /\ ~RgaSlice[1]
    /\ rga.res.kind = "Selection"
    /\ Len(rga.res.selectors) >= 3

CoversAllRows == Len(selection_vector) = SumSeq(row_group_sizes)

\* C2 as stated: with a selection vector covering all rows, all true gives
\* Scan for every row group whatever its row count (0 included), all false
\* gives Skip for every row group.
C2_AllTrueScanAllFalseSkip ==
    (access_plan.status = "Ok" /\ CoversAllRows) =>
       /\ AllTrue(selection_vector) =>
             \A g \in 1..Len(row_group_sizes) : access_plan.row_groups[g] = Scan
       /\ AllFalse(selection_vector) =>
             \A g \in 1..Len(row_group_sizes) : access_plan.row_groups[g] = Skip

\* C2 amended: all true gives Scan for every row group that has at least one
\* row, all false gives Skip for every row group, and a row group of zero
\* rows is decided Skip in both cases.
C2_NonEmptyGroupsScanOrSkip ==
    (access_plan.status = "Ok" /\ CoversAllRows) =>
       /\ AllTrue(selection_vector) =>
             \A g \in 1..Len(row_group_sizes) :
                access_plan.row_groups[g] = IF row_group_sizes[g] >= 1 THEN Scan ELSE Skip
       /\ AllFalse(selection_vector) =>
             \A g \in 1..Len(row_group_sizes) : access_plan.row_groups[g] = Skip

\* A plan for an all-true vector covering a file that has an empty row
\* group between non-empty ones
C2_Witness ==
    /\ access_plan.status = "Ok"
    /\ CoversAllRows
    /\ AllTrue(selection_vector)
    /\ Len(row_group_sizes) = 3
    /\ row_group_sizes[1] >= 1
    /\ row_group_sizes[2] = 0
    /\ row_group_sizes[3] >= 1
    /\ access_plan.row_groups = <<Scan, Skip, Scan>>

\* C3: get_parquet_access_plan returns one decision per row group, in
\* row-group order; the decision of group g is the one get_row_group_access
\* gives for the padded slice [S_g, S_g + n_g) taken alone, S_g being the
\* rows of the groups before g; the slices cover every row of the file; 2
\* groups of 100 rows with rows 150-199 deleted give
\* [Scan, Selection(select 50, skip 50)].
C3_OneDecisionPerGroupSlice ==
    /\ access_plan.status = "Ok" =>
          /\ Len(access_plan.row_groups) = Len(row_group_sizes)
          /\ \A g \in 1..Len(row_group_sizes) :
                access_plan.row_groups[g]
                  = get_row_group_access(GroupSlice(g), 0, row_group_sizes[g])
          /\ Len(row_group_sizes) > 0 =>
                GroupStart(Len(row_group_sizes)) + row_group_sizes[Len(row_group_sizes)]
                  = Len(PaddedSelection)
    /\ (/\ access_plan.status = "Ok"
        /\ row_group_sizes = ScenarioSizes
        /\ selection_vector = ScenarioSelection) =>
          access_plan.row_groups
            = <<Scan, Selection(<<RowSelectorSelect(50), RowSelectorSkip(50)>>)>>

\* A plan of three non-empty row groups whose decisions differ, the raw
\* vector being shorter than the file
C3_Witness ==
    /\ access_plan.status = "Ok"
    /\ Len(row_group_sizes) = 3
    /\ \A g \in 1..3 : row_group_sizes[g] >= 1
    /\ Len(selection_vector) < SumSeq(row_group_sizes)
    /\ access_plan.row_groups[1].kind = "Skip"
    /\ access_plan.row_groups[2].kind = "Selection"
    /\ access_plan.row_groups[3].kind = "Scan"

(***************************************************************************)
(* Table Provider Adapter: construction, pushdown capability and scan      *)
(***************************************************************************)
ScanIds == {"s1", "s2"}

\* A scan that has not been invoked
IdleScan ==
    [pc |-> "idle", projection |-> None, filters |-> <<>>, limit |-> None,
     physical_expr |-> None, projected_delta_schema |-> <<>>, scan_state |-> None,
     iter |-> <<>>, scan_context |-> [errs |-> <<>>, files |-> <<>>],
     partitioned_files |-> <<>>, fetched |-> <<>>, metadata_errors |-> <<>>,
     result |-> NotCalled]

\* The access planner's variables while the scan is exercised
IdleAccessVars ==
    /\ selection_vector = <<>>
    /\ row_group_sizes = <<>>
    /\ access_plan = NotCalled
    /\ rga = NotCalled
    /\ full_selection = NotCalled

\* The fields a log schema is made of
FieldCatalogue ==
    [a |-> StructField("a", Primitive("Long"), TRUE),
     p |-> StructField("p", Primitive("Integer"), FALSE),
     q |-> StructField("q", Primitive("String"), TRUE)]
Names == {"a", "p", "q"}
PartitionNames == {"p", "q"}

Distinct(seq) == \A i, j \in 1..Len(seq) : i # j => seq[i] # seq[j]

\* The log schemas: every arrangement of one or more distinct fields
LogSchemas ==
    {[i \in 1..Len(ns) |-> FieldCatalogue[ns[i]]] :
        ns \in {x \in SeqUpTo(Names, Cardinality(Names)) : x # <<>> /\ Distinct(x)}}

\* The partitionings of a schema: distinct partition-capable fields of it, in
\* any order
Partitionings(sch) ==
    {pc \in SeqUpTo(PartitionNames, Cardinality(PartitionNames)) :
        Distinct(pc) /\ \A i \in 1..Len(pc) : FieldIndex(sch, pc[i]) # 0}

TableRoot == [valid |-> TRUE, path |-> "/tbl/"]

\* The row groups a parquet file of the model may turn out to have
ParquetLayouts == {<<3>>, <<1, 2>>}

\* What the object store may answer: whether a batch of scan data can be
\* read, whether a parquet footer can be read, and the row groups it lists
AnyStorage ==
    [batches |-> BOOLEAN, metadata |-> BOOLEAN, layouts |-> ParquetLayouts]

\* The filter lists and projections the engine hands over
FilterLists == SeqUpTo({Column("f1"), Column("f2")}, MaxFilters)
Projections(n) ==
    {None} \cup {Some(v) : v \in {x \in SeqUpTo(0..(n - 1), MaxProjection) : Distinct(x)}}
Limits == {None, Some(10)}

\* A log without files: any schema and partitioning, readable or not
InitSchema ==
    /\ \E sch \in LogSchemas : \E pc \in Partitionings(sch) : \E r \in BOOLEAN :
          log = [schema |-> sch, partition_columns |-> pc, files |-> <<>>,
                 table_root |-> TableRoot, readable |-> r,
                 storage |-> AnyStorage]
    /\ table = NotCalled
    /\ scan = [s \in ScanIds |-> IdleScan]
    /\ pushdown = NotCalled
    /\ IdleAccessVars
    /\ IdleOtherVars

\* DeltaTable::from called directly
From ==
    /\ table = NotCalled
    /\ table' = DeltaTable_from(log)
    /\ UNCHANGED <<log, scan, pushdown>>
    /\ UNCHANGED accessVars
    /\ UNCHANGED otherVars

\* DeltaTableFactory::create: DeltaTable::from, then provider.unwrap()
Create ==
    /\ table = NotCalled
    /\ table' = IF DeltaTable_from(log).status = "Ok"
                THEN DeltaTable_from(log)
                ELSE [status |-> "Panic"]
    /\ UNCHANGED <<log, scan, pushdown>>
    /\ UNCHANGED accessVars
    /\ UNCHANGED otherVars

\* The engine asks which of its filters can be pushed down
SupportsFiltersPushdown ==
    /\ table.status = "Ok"
    /\ pushdown = NotCalled
    /\ \A s \in ScanIds : scan[s].pc = "idle"
    /\ \E filters \in FilterLists :
          pushdown' = [status |-> "Called", filters |-> filters,
                       result |-> supports_filters_pushdown(filters)]
    /\ UNCHANGED <<log, table, scan>>
    /\ UNCHANGED accessVars
    /\ UNCHANGED otherVars

\* scan() up to scan.scan_data(): snapshot, predicate, schema request, scan
\* state and an empty ScanContext
ScanStart(s, projection, filters, limit) ==
    /\ table.status = "Ok"
    /\ scan[s].pc = "idle"
    /\ pushdown.status = "Called" => filters = pushdown.filters
    /\ LET snapshot == log
           filter == ScanFilter(filters)
           projected == project_delta_schema(table.arrow_schema, table.delta_schema,
                                             projection)
       IN  scan' = [scan EXCEPT ![s] =
              [@ EXCEPT !.pc = "enumerate",
                        !.projection = projection,
                        !.filters = filters,
                        !.limit = limit,
                        !.physical_expr = create_physical_expr(filter),
                        !.projected_delta_schema = projected,
                        !.scan_state = [table_root |-> snapshot.table_root,
                                        partition_columns |-> snapshot.partition_columns,
                                        logical_schema |-> projected],
                        !.iter = snapshot.files,
                        !.scan_context = [errs |-> <<>>, files |-> <<>>]]]
    /\ UNCHANGED <<log, table, pushdown>>
    /\ UNCHANGED accessVars
    /\ UNCHANGED otherVars

\* A faulty variant of VisitFile: the scan context is one object shared by
\* the scans in progress
VisitFileShared(s) ==
    /\ scan[s].pc = "enumerate"
    /\ scan[s].iter # <<>>
    /\ TRUE \in log.storage.batches
    /\ LET r == handle_scan_file(scan[s].scan_context, scan[s].scan_state,
                                 Head(scan[s].iter))
       IN  scan' = [u \in ScanIds |->
              IF r.status = "Panic"
              THEN IF u = s
                   THEN [scan[u] EXCEPT !.pc = "done", !.result = [status |-> "Panic"]]
                   ELSE scan[u]
              ELSE IF u = s
                   THEN [scan[u] EXCEPT !.iter = Tail(@), !.scan_context = r.ctx]
                   ELSE IF scan[u].pc = "enumerate"
                        THEN [scan[u] EXCEPT !.scan_context = r.ctx]
                        ELSE scan[u]]
    /\ UNCHANGED <<log, table, pushdown>>
    /\ UNCHANGED accessVars
    /\ UNCHANGED otherVars

\* One callback of visit_scan_files: handle_scan_file on the next file
VisitFile(s) ==
    /\ scan[s].pc = "enumerate"
    /\ scan[s].iter # <<>>
    /\ TRUE \in log.storage.batches
    /\ LET r == handle_scan_file(scan[s].scan_context, scan[s].scan_state,
                                 Head(scan[s].iter))
       IN  scan' = [scan EXCEPT ![s] =
              IF r.status = "Panic"
              THEN [@ EXCEPT !.pc = "done", !.result = [status |-> "Panic"]]
              ELSE [@ EXCEPT !.iter = Tail(@), !.scan_context = r.ctx]]
    /\ UNCHANGED <<log, table, pushdown>>
    /\ UNCHANGED accessVars
    /\ UNCHANGED otherVars

\* The scan-data iterator yields an error, or visit_scan_files returns one:
\* scan returns it at once
IterError(s) ==
    /\ scan[s].pc = "enumerate"
    /\ FALSE \in log.storage.batches
    /\ scan' = [scan EXCEPT ![s] =
          [@ EXCEPT !.pc = "done",
                    !.result = [status |-> "Err",
                                error |-> <<"External", Len(scan[s].iter)>>]]]
    /\ UNCHANGED <<log, table, pushdown>>
    /\ UNCHANGED accessVars
    /\ UNCHANGED otherVars

\* The end of the enumeration: the first recorded error fails the scan
EnumDone(s) ==
    /\ scan[s].pc = "enumerate"
    /\ scan[s].iter = <<>>
    /\ TRUE \in log.storage.batches
    /\ scan' = [scan EXCEPT ![s] =
          IF scan[s].scan_context.errs # <<>>
          THEN [@ EXCEPT !.pc = "done",
                         !.result = [status |-> "Err",
                                     error |-> Head(scan[s].scan_context.errs)]]
          ELSE [@ EXCEPT !.pc = "access"]]
    /\ UNCHANGED <<log, table, pushdown>>
    /\ UNCHANGED accessVars
    /\ UNCHANGED otherVars

\* A faulty variant of AccessPlanFor: a file whose metadata cannot be
\* fetched is scanned whole
AccessPlanForFallback(file, meta_ok, sizes) ==
    IF file.selection_vector.kind = "Some" /\ meta_ok
    THEN get_parquet_access_plan(meta_ok, sizes, file.selection_vector.v)
    ELSE [status |-> "NoPlan"]

\* A faulty variant of AccessPlanFor: an absent selection is planned like an empty one
AccessPlanForAlways(file, meta_ok, sizes) ==
    get_parquet_access_plan(meta_ok, sizes,
        IF file.selection_vector.kind = "Some" THEN file.selection_vector.v ELSE <<>>)

\* if let Some(selection_vector) = file.selection_vector { get_parquet_access_plan }
AccessPlanFor(file, meta_ok, sizes) ==
    IF file.selection_vector.kind = "Some"
    THEN get_parquet_access_plan(meta_ok, sizes, file.selection_vector.v)
    ELSE [status |-> "NoPlan"]

\* One iteration of the loop over scan_context.files
AccessFile(s) ==
    /\ scan[s].pc = "access"
    /\ Len(scan[s].partitioned_files) < Len(scan[s].scan_context.files)
    /\ LET file == scan[s].scan_context.files[Len(scan[s].partitioned_files) + 1]
       IN  \E meta_ok \in log.storage.metadata : \E sizes \in log.storage.layouts :
              LET plan == AccessPlanFor(file, meta_ok, sizes)
                  failed == IF file.selection_vector.kind = "Some" /\ ~meta_ok
                            THEN <<file.partitioned_file.path>> ELSE <<>>
              IN  scan' = [scan EXCEPT ![s] =
                     CASE plan.status = "NoPlan" ->
                            [@ EXCEPT !.metadata_errors = @ \o failed,
                                      !.partitioned_files = Append(@, file.partitioned_file)]
                       [] plan.status = "Ok" ->
                            [@ EXCEPT !.fetched = Append(@, file.partitioned_file.path),
                                      !.partitioned_files = Append(@,
                                         [file.partitioned_file EXCEPT
                                            !.extensions = Some(plan.row_groups)])]
                       [] plan.status = "Err" ->
                            [@ EXCEPT !.fetched = Append(@, file.partitioned_file.path),
                                      !.metadata_errors = @ \o failed,
                                      !.pc = "done",
                                      !.result = [status |-> "Err",
                                                  error |-> <<plan.error,
                                                      file.partitioned_file.path[3]>>]]
                       [] plan.status = "Panic" ->
                            [@ EXCEPT !.fetched = Append(@, file.partitioned_file.path),
                                      !.pc = "done",
                                      !.result = [status |-> "Panic"]]]
    /\ UNCHANGED <<log, table, pushdown>>
    /\ UNCHANGED accessVars
    /\ UNCHANGED otherVars

\* FileScanConfig and ParquetExec: the plan handed to the engine
Build(s) ==
    /\ scan[s].pc = "access"
    /\ Len(scan[s].partitioned_files) = Len(scan[s].scan_context.files)
    /\ scan' = [scan EXCEPT ![s] =
          [@ EXCEPT !.pc = "done",
                    !.result = [status |-> "Ok",
                                plan |-> [file_schema |-> table.arrow_file_schema,
                                          limit |-> scan[s].limit,
                                          projection |-> scan[s].projection,
                                          file_group |-> scan[s].partitioned_files,
                                          table_partition_cols |-> table.arrow_partition_cols,
                                          predicate |-> scan[s].physical_expr]]]]
    /\ UNCHANGED <<log, table, pushdown>>
    /\ UNCHANGED accessVars
    /\ UNCHANGED otherVars

\* The provider on a table without files: construction, pushdown capability
\* and scans with any projection, filters and limit
NextSchema ==
    \/ From
    \/ Create
    \/ SupportsFiltersPushdown
    \/ \E projection \in Projections(Len(log.schema)) : \E filters \in FilterLists :
         \E limit \in Limits : ScanStart("s1", projection, filters, limit)
    \/ IterError("s1")
    \/ EnumDone("s1")
    \/ Build("s1")

SpecSchema == InitSchema /\ [][NextSchema]_vars

(***************************************************************************)
(* Specification of scans of a table with files                            *)
(***************************************************************************)
\* The log schema of the scanned table: a partition-capable field first
ScanSchema == <<FieldCatalogue["p"], FieldCatalogue["a"], FieldCatalogue["q"]>>

\* The partition value strings a log entry may carry for the partition
\* columns pc: a value of each column's type, a value that does not parse as
\* an integer for p, or an entry that lacks the last column
PartitionValueMaps(pc) ==
    LET cols == {pc[i] : i \in 1..Len(pc)}
        typed == [c \in cols |-> IF c = "p" THEN "7" ELSE "x"]
        swapped == [c \in cols |-> IF c = "p" THEN "x" ELSE "7"]
        missing == [c \in cols \ {pc[Len(pc)]} |-> typed[c]]
    IN  IF pc = <<>> THEN {typed} ELSE {typed, swapped, missing}

\* What materializing a file's deletion vector may give
DvChoices == {None, [kind |-> "Err"], Some(<<TRUE, FALSE, TRUE>>)}

\* The file lists of at most n files: file i is named i and has 100 * i bytes
FileListsUpTo(pc, n) ==
    {[i \in 1..Len(fs) |->
         [path |-> i, size |-> 100 * i,
          partition_values |-> fs[i].partition_values, dv |-> fs[i].dv]] :
        fs \in SeqUpTo([partition_values : PartitionValueMaps(pc), dv : DvChoices], n)}

\* The file lists of the log
FileLists(pc) == FileListsUpTo(pc, MaxFiles)

InitScan ==
    /\ \E pc \in Partitionings(ScanSchema) : \E files \in FileLists(pc) :
          log = [schema |-> ScanSchema, partition_columns |-> pc, files |-> files,
                 table_root |-> TableRoot, readable |-> TRUE,
                 storage |-> AnyStorage]
    /\ table = NotCalled
    /\ scan = [s \in ScanIds |-> IdleScan]
    /\ pushdown = NotCalled
    /\ IdleAccessVars
    /\ IdleOtherVars

ScanFilterLists == {<<>>, <<Column("f1"), Column("f2")>>}

NextScan ==
    \/ Create
    \/ \E projection \in Projections(Len(log.schema)) : \E filters \in ScanFilterLists :
         ScanStart("s1", projection, filters, None)
    \/ VisitFile("s1")
    \/ IterError("s1")
    \/ EnumDone("s1")
    \/ AccessFile("s1")
    \/ Build("s1")

SpecScan == InitScan /\ [][NextScan]_vars

(***************************************************************************)
(* Properties of the scan                                                  *)
(***************************************************************************)
\* The files the enumerator recorded for scan s that carry a Selection
HasSelection(file) == file.selection_vector.kind = "Some"

\* C4: in the plan built by scan a file has a row-group access plan attached
\* if and only if the enumerator recorded a Selection for it; row-group
\* metadata is fetched for no file without a Selection.
C4_AccessPlanIffSelection ==
    \A s \in ScanIds :
       /\ \A i \in 1..Len(scan[s].partitioned_files) :
             /\ scan[s].partitioned_files[i].path
                  = scan[s].scan_context.files[i].partitioned_file.path
             /\ (scan[s].partitioned_files[i].extensions.kind = "Some")
                  <=> HasSelection(scan[s].scan_context.files[i])
       /\ \A k \in 1..Len(scan[s].fetched) :
             \E i \in 1..Len(scan[s].scan_context.files) :
                /\ scan[s].scan_context.files[i].partitioned_file.path = scan[s].fetched[k]
                /\ HasSelection(scan[s].scan_context.files[i])
       /\ scan[s].result.status = "Ok" =>
             /\ scan[s].result.plan.file_group = scan[s].partitioned_files
             /\ Len(scan[s].partitioned_files) = Len(scan[s].scan_context.files)
             /\ Len(scan[s].fetched)
                  = Cardinality({i \in 1..Len(scan[s].scan_context.files) :
                                    HasSelection(scan[s].scan_context.files[i])})

\* A plan of two files, the first fully live and without access plan, the
\* second with a Selection and its access plan, one metadata fetch made
C4_Witness ==
    /\ scan["s1"].result.status = "Ok"
    /\ Len(scan["s1"].result.plan.file_group) = 2
    /\ scan["s1"].result.plan.file_group[1].extensions = None
    /\ scan["s1"].result.plan.file_group[2].extensions.kind = "Some"
    /\ Len(scan["s1"].fetched) = 1

\* The names of the log schema's fields that are no partition column, in
\* log order
DataColumnNames(lg) ==
    SelectSeq(FieldNames(lg.schema), LAMBDA n : ~Contains(lg.partition_columns, n))

\* C5: the logical schema exposed by schema() lists all data columns first
\* and then the partition columns in declared partition-column order,
\* wherever the partition columns sit in the log schema.
C5_PartitionColumnsLast ==
    table.status = "Ok" =>
       FieldNames(schema(table)) = DataColumnNames(log) \o log.partition_columns

\* C6: the file-physical schema holds exactly the non-partition fields in
\* log order; every logical-schema field carries the mapped type and the
\* nullability of its log field and occurs, unchanged, in exactly one of the
\* file-physical schema and the partition field list; so the counts add up
\* and no name is in both halves.
C6_SchemaViewsPartitionFields ==
    table.status = "Ok" =>
       LET logical == table.arrow_schema
           physical == table.arrow_file_schema
           partition == table.arrow_partition_cols
       IN  /\ FieldNames(physical) = DataColumnNames(log)
           /\ FieldNames(partition) = log.partition_columns
           /\ Len(logical) = Len(log.schema)
           /\ \A i \in 1..Len(logical) :
                 /\ logical[i].name = log.schema[i].name
                 /\ logical[i].nullable = log.schema[i].nullable
                 /\ logical[i].data_type
                      = map_delta_data_type_to_arrow_data_type(log.schema[i].data_type)
                 /\ Cardinality({j \in 1..Len(physical) : physical[j] = logical[i]})
                      + Cardinality({j \in 1..Len(partition) : partition[j] = logical[i]})
                      = 1
           /\ Len(logical) = Len(physical) + Len(partition)
           /\ \A i \in 1..Len(physical) : \A j \in 1..Len(partition) :
                 physical[i].name # partition[j].name

\* A table of three fields, two of them partition columns declared in the
\* reverse of their log order, the first log field being a partition column
C6_Witness ==
    /\ table.status = "Ok"
    /\ Len(log.schema) = 3
    /\ log.schema[1].name = "p"
    /\ log.partition_columns = <<"q", "p">>
    /\ Len(table.arrow_file_schema) = 1

\* The scans that have built their schema request from a projection
Requested(s) == scan[s].pc # "idle" /\ scan[s].projection.kind = "Some"

\* The names the projected indices have in the schema returned by schema()
ProjectedNames(s) ==
    [k \in 1..Len(scan[s].projection.v) |->
        table.arrow_schema[scan[s].projection.v[k] + 1].name]

\* C7 as stated: with a projection, the schema request holds only the
\* projected data columns; a projected partition column is omitted.
C7_RequestOmitsPartitionColumns ==
    \A s \in ScanIds :
       Requested(s) =>
          FieldNames(scan[s].projected_delta_schema)
            = SelectSeq(ProjectedNames(s), LAMBDA n : ~Contains(log.partition_columns, n))

\* C7 amended: with a projection, the schema request holds, in projection
\* order, the log-schema field of every projected index, partition columns
\* included; without a projection it is the whole log schema.
C7_RequestHoldsProjectedFields ==
    \A s \in ScanIds :
       /\ Requested(s) =>
             /\ FieldNames(scan[s].projected_delta_schema) = ProjectedNames(s)
             /\ \A k \in 1..Len(scan[s].projected_delta_schema) :
                   \E i \in 1..Len(log.schema) :
                      log.schema[i] = scan[s].projected_delta_schema[k]
       /\ (scan[s].pc # "idle" /\ scan[s].projection = None) =>
             scan[s].projected_delta_schema = log.schema

\* A scan that projects one partition column and one data column and whose
\* request holds both
C7_Witness ==
    /\ Requested("s1")
    /\ Len(scan["s1"].projection.v) = 2
    /\ Cardinality({k \in 1..2 : Contains(log.partition_columns, ProjectedNames("s1")[k])}) = 1
    /\ Len(scan["s1"].projected_delta_schema) = 2

\* The log entry of the file that was placed in the file list as pf
LogFileOf(pf) == log.files[pf.path[3]]

\* The type the log schema gives column col, mapped
MappedTypeOf(col) ==
    map_delta_data_type_to_arrow_data_type(
        log.schema[FieldIndex(log.schema, col)].data_type)

\* C8: every file placed in the file list carries exactly one typed
\* partition value per partition column, in partition-column order, the i-th
\* being the file's string for the i-th partition column parsed into the
\* column's mapped type; the plan's partition field list holds every
\* partition column whatever the projection is.
C8_TypedPartitionValues ==
    \A s \in ScanIds :
       /\ \A k \in 1..Len(scan[s].scan_context.files) :
             LET pf == scan[s].scan_context.files[k].partitioned_file
             IN  /\ Len(pf.partition_values) = Len(log.partition_columns)
                 /\ \A i \in 1..Len(log.partition_columns) :
                       LET col == log.partition_columns[i]
                           parsed == try_from_string(LogFileOf(pf).partition_values[col],
                                                     MappedTypeOf(col))
                       IN  /\ parsed.ok
                           /\ pf.partition_values[i] = parsed.scalar
                           /\ pf.partition_values[i].type = MappedTypeOf(col).kind
       /\ scan[s].result.status = "Ok" =>
             /\ FieldNames(scan[s].result.plan.table_partition_cols) = log.partition_columns
             /\ \A i \in 1..Len(log.partition_columns) :
                   scan[s].result.plan.table_partition_cols[i].data_type
                     = MappedTypeOf(log.partition_columns[i])
             /\ \A k \in 1..Len(scan[s].result.plan.file_group) :
                   scan[s].result.plan.file_group[k].partition_values
                     = scan[s].scan_context.files[k].partitioned_file.partition_values

\* A plan for a projection that leaves out a data column, on a table
\* partitioned by q then p, with a file carrying a string and an integer value
C8_Witness ==
    /\ scan["s1"].result.status = "Ok"
    /\ scan["s1"].projection.kind = "Some"
    /\ Len(scan["s1"].projection.v) = 2
    /\ log.partition_columns = <<"q", "p">>
    /\ Len(scan["s1"].result.plan.file_group) >= 1
    /\ scan["s1"].result.plan.file_group[1].partition_values
         = <<[type |-> "Utf8", value |-> <<"x">>], [type |-> "Int32", value |-> 7]>>

\* C9: supports_filters_pushdown returns, for n offered filters, Ok with
\* exactly n entries, each Inexact (never Exact or Unsupported).
C9_EveryFilterInexact ==
    pushdown.status = "Called" =>
       /\ pushdown.result.status = "Ok"
       /\ Len(pushdown.result.v) = Len(pushdown.filters)
       /\ \A i \in 1..Len(pushdown.result.v) :
             /\ pushdown.result.v[i] = "Inexact"
             /\ pushdown.result.v[i] \notin {"Exact", "Unsupported"}

\* A call with two filters offered
C9_Witness ==
    /\ pushdown.status = "Called"
    /\ Len(pushdown.filters) = 2
    /\ Len(pushdown.result.v) = 2

\* The truth value of a physical expression when the filter columns have
\* the values val
RECURSIVE Evaluate(_, _)
Evaluate(e, val) ==
    CASE e.kind = "PhysicalColumn" -> val[e.name]
      [] e.kind = "PhysicalLiteral" -> e.value
      [] e.kind = "PhysicalBinaryExpr" ->
           (IF e.op = "And"
            THEN Evaluate(e.left, val) /\ Evaluate(e.right, val)
            ELSE Evaluate(e.left, val) \/ Evaluate(e.right, val))

FilterValuations == [{"f1", "f2"} -> BOOLEAN]

\* C10: the predicate attached to the plan is the logical AND of all the
\* supplied filters; with no filter it is the constant true.
C10_PredicateIsConjunction ==
    \A s \in ScanIds :
       scan[s].result.status = "Ok" =>
          /\ \A val \in FilterValuations :
                Evaluate(scan[s].result.plan.predicate, val)
                  <=> \A i \in 1..Len(scan[s].filters) : val[scan[s].filters[i].name]
          /\ scan[s].filters = <<>> =>
                scan[s].result.plan.predicate = create_physical_expr(lit(TRUE))

\* A plan for two different filters
C10_Witness ==
    /\ scan["s1"].result.status = "Ok"
    /\ scan["s1"].filters = <<Column("f1"), Column("f2")>>
    /\ scan["s1"].result.plan.predicate.kind = "PhysicalBinaryExpr"

\* C14: once the table was built, the caller holds the provider or a
\* construction error; when the log cannot be opened it holds an error.
C14_CreateReturnsProviderOrError ==
    /\ table.status \in {"NotCalled", "Ok", "Err"}
    /\ (~log.readable /\ table.status /= "NotCalled") => table.status = "Err"

\* The files of the log the enumeration of scan s has visited so far
Visited(s) == SubSeq(log.files, 1, Len(log.files) - Len(scan[s].iter))

\* Materializing the deletion vector failed for a file scan s has visited
DvFailed(s) ==
    \E i \in 1..Len(scan[s].scan_context.errs) :
       scan[s].scan_context.errs[i][1] = "Error getting selection vector"

\* C12: once materializing a deletion vector failed for a file, the scan
\* returns an error and no plan; a file whose deletion vector failed is never
\* in the file list, so never taken as a file without Selection.
C12_DvFailureFailsScan ==
    \A s \in ScanIds :
       /\ \A k \in 1..Len(scan[s].scan_context.files) :
             LET file == scan[s].scan_context.files[k]
             IN  /\ LogFileOf(file.partitioned_file).dv.kind /= "Err"
                 /\ file.selection_vector = LogFileOf(file.partitioned_file).dv
       /\ DvFailed(s) =>
             /\ scan[s].pc /= "access"
             /\ scan[s].partitioned_files = <<>>
             /\ scan[s].result.status /= "Ok"
       /\ (DvFailed(s) /\ scan[s].pc = "done") => scan[s].result.status = "Err"

\* A partition column of the log for which file has no string, or a string
\* that does not parse into the column's mapped type
Undecodable(file) ==
    \E i \in 1..Len(log.partition_columns) :
       LET col == log.partition_columns[i]
       IN  \/ col \notin DOMAIN file.partition_values
           \/ ~try_from_string(file.partition_values[col], MappedTypeOf(col)).ok

\* C13: a scan that came to a file with a partition value that cannot be
\* decoded ends with an error result, and no plan.
C13_DecodeFailureIsError ==
    \A s \in ScanIds :
       /\ (scan[s].pc = "done" /\ scan[s].iter /= <<>> /\ Undecodable(Head(scan[s].iter)))
             => scan[s].result.status = "Err"
       /\ (scan[s].pc \in {"access", "done"}
             /\ \E i \in 1..Len(Visited(s)) : Undecodable(Visited(s)[i]))
             => scan[s].result.status = "Err"

\* The visited files whose callback recorded no error, in the order of the
\* iterator
Enumerated(s) == SelectSeq(Visited(s), LAMBDA f : f.dv.kind /= "Err")

\* The log names of a list of file references or of a list of log files
PathsOfFiles(pfs) == [k \in 1..Len(pfs) |-> pfs[k].path[3]]
PathsOfLog(fs) == [k \in 1..Len(fs) |-> fs[k].path]

\* C15: the files collected by the enumeration are the visited files that
\* recorded no error, in the iterator's order across batches, each once; the
\* file list of a returned plan holds every file of the snapshot in that
\* order.
C15_FilesInIteratorOrder ==
    \A s \in ScanIds :
       /\ scan[s].pc /= "idle" =>
             PathsOfFiles([k \in 1..Len(scan[s].scan_context.files) |->
                             scan[s].scan_context.files[k].partitioned_file])
               = PathsOfLog(Enumerated(s))
       /\ PathsOfFiles(scan[s].partitioned_files)
             = SubSeq(PathsOfLog(Enumerated(s)), 1, Len(scan[s].partitioned_files))
       /\ scan[s].result.status = "Ok" =>
             /\ PathsOfFiles(scan[s].result.plan.file_group) = PathsOfLog(log.files)
             /\ Enumerated(s) = log.files

\* C15 witness: a plan was returned for a snapshot of MaxFiles files, the
\* last of them with a Selection
C15_Witness ==
    /\ Len(log.files) = MaxFiles
    /\ MaxFiles >= 2
    /\ log.files[MaxFiles].dv.kind = "Some"
    /\ scan["s1"].result.status = "Ok"
    /\ Len(scan["s1"].result.plan.file_group) = MaxFiles
    /\ scan["s1"].result.plan.file_group[1].path[3] = 1
    /\ scan["s1"].result.plan.file_group[MaxFiles].path[3] = MaxFiles

\* The scan ended on an error of the scan-data iterator
IteratorFailed(s) ==
    /\ scan[s].result.status = "Err"
    /\ scan[s].result.error[1] = "External"

\* C19: the error list holds one error per visited file whose callback
\* failed, in order; once an error is recorded the enumeration still goes
\* through every file the iterator yields, and the scan fails at the end of
\* the enumeration, on the error list.
C19_EnumerationContinuesAfterError ==
    \A s \in ScanIds :
       /\ scan[s].pc /= "idle" =>
             [k \in 1..Len(scan[s].scan_context.errs) |->
                 scan[s].scan_context.errs[k][2]]
               = PathsOfLog(SelectSeq(Visited(s), LAMBDA f : f.dv.kind = "Err"))
       /\ (scan[s].pc = "done" /\ scan[s].scan_context.errs /= <<>>
             /\ ~IteratorFailed(s))
             => /\ scan[s].iter = <<>>
                /\ scan[s].result
                     = [status |-> "Err", error |-> Head(scan[s].scan_context.errs)]
       /\ scan[s].pc = "access" =>
             scan[s].iter = <<>> /\ scan[s].scan_context.errs = <<>>

\* The padding of a raw vector no longer than the file: total rows long, the
\* raw values first, true after them
PaddedToTotal ==
    (full_selection.status = "Ok"
       /\ Len(selection_vector) <= SumSeq(row_group_sizes)) =>
       /\ Len(full_selection.v) = SumSeq(row_group_sizes)
       /\ \A k \in 1..Len(full_selection.v) :
             full_selection.v[k]
               = IF k <= Len(selection_vector) THEN selection_vector[k] ELSE TRUE

\* C18 as stated: the raw vector is padded with true to the total row
\* count, and every row group that starts at or after the raw length is
\* decided Scan.
C18_GroupsBeyondLengthScan ==
    /\ PaddedToTotal
    /\ access_plan.status = "Ok" =>
          \A g \in 1..Len(row_group_sizes) :
             GroupStart(g) >= Len(selection_vector)
                => access_plan.row_groups[g] = Scan

\* C18 amended: the raw vector is padded with true to the total row count,
\* and a row group that starts at or after the raw length is decided Scan
\* when it has rows, Skip when it has none.
C18_NonEmptyGroupsBeyondLengthScan ==
    /\ PaddedToTotal
    /\ access_plan.status = "Ok" =>
          \A g \in 1..Len(row_group_sizes) :
             GroupStart(g) >= Len(selection_vector)
                => access_plan.row_groups[g]
                     = IF row_group_sizes[g] > 0 THEN Scan ELSE Skip

\* C18 witness: a raw vector of one deleted row for a file of a one-row
\* group and a two-row group: padded to three rows, second group Scan
C18_Witness ==
    /\ selection_vector = <<FALSE>>
    /\ row_group_sizes = <<1, 2>>
    /\ full_selection = [status |-> "Ok", v |-> <<FALSE, TRUE, TRUE>>]
    /\ access_plan.status = "Ok"
    /\ access_plan.row_groups = <<Skip, Scan>>

\* C20: when fetching the row-group metadata of a file fails, the scan ends
\* at once with that error: the failed fetch is the last one made, the file
\* is not in the file list, and no plan is returned.
C20_MetadataFailureReturnsAtOnce ==
    \A s \in ScanIds :
       scan[s].metadata_errors /= <<>> =>
          LET n == Len(scan[s].partitioned_files)
              file == scan[s].scan_context.files[n + 1]
          IN  /\ scan[s].pc = "done"
              /\ Len(scan[s].metadata_errors) = 1
              /\ n < Len(scan[s].scan_context.files)
              /\ HasSelection(file)
              /\ scan[s].metadata_errors[1] = file.partitioned_file.path
              /\ scan[s].fetched[Len(scan[s].fetched)] = file.partitioned_file.path
              /\ Len(scan[s].fetched)
                   = Cardinality({i \in 1..(n + 1) :
                                     HasSelection(scan[s].scan_context.files[i])})
              /\ scan[s].result
                   = [status |-> "Err",
                      error |-> <<"Error getting parquet metadata",
                                  file.partitioned_file.path[3]>>]

\* C20 witness: the metadata of the first of two files with a Selection
\* could not be fetched; the scan returned that error, having fetched once
C20_Witness ==
    /\ Len(scan["s1"].scan_context.files) = 2
    /\ HasSelection(scan["s1"].scan_context.files[1])
    /\ HasSelection(scan["s1"].scan_context.files[2])
    /\ scan["s1"].metadata_errors /= <<>>
    /\ scan["s1"].partitioned_files = <<>>
    /\ Len(scan["s1"].fetched) = 1
    /\ scan["s1"].result.status = "Err"

\* The columns of a plan: the file schema fields, then the partition fields
PlanColumns(plan) == plan.file_schema \o plan.table_partition_cols

\* C21: every projection index handed to scan names the same column in the
\* schema returned by schema(), in the columns of the returned plan (file
\* schema fields followed by partition fields) and in the schema request.
C21_ProjectionIndexSameColumn ==
    \A s \in ScanIds :
       (scan[s].result.status = "Ok" /\ scan[s].projection.kind = "Some") =>
          \A k \in 1..Len(scan[s].projection.v) :
             LET i == scan[s].projection.v[k] + 1
             IN  /\ PlanColumns(scan[s].result.plan)[i].name = schema(table)[i].name
                 /\ scan[s].projected_delta_schema[k].name = schema(table)[i].name

\* C23: whenever the metadata of the file was read, padding the raw
\* selection vector completes and get_parquet_access_plan returns a plan,
\* whatever the raw vector and the row groups are.
C23_AccessPlanningInBounds ==
    access_plan.status \notin {"NotCalled", "Err"} =>
       /\ full_selection.status = "Ok"
       /\ access_plan.status = "Ok"
       /\ Len(access_plan.row_groups) = Len(row_group_sizes)

(***************************************************************************)
(* Specification of concurrent scans: two scans of one DeltaTable, their   *)
(* steps interleaved, on a log and an object store that do not change.     *)
(***************************************************************************)
\* An object store in one state: every read of it has one outcome
SteadyStorages ==
    {[batches |-> {b}, metadata |-> {m}, layouts |-> {<<1, 2>>}] :
        b \in BOOLEAN, m \in BOOLEAN}

\* The projections of the concurrent scans: all columns, or column a alone
ConcProjections == {None, Some(<<1>>)}

InitConc ==
    /\ \E pc \in Partitionings(ScanSchema) :
         \E files \in FileListsUpTo(pc, MaxConcFiles) :
           \E storage \in SteadyStorages :
              log = [schema |-> ScanSchema, partition_columns |-> pc, files |-> files,
                     table_root |-> TableRoot, readable |-> TRUE,
                     storage |-> storage]
    /\ table = NotCalled
    /\ scan = [s \in ScanIds |-> IdleScan]
    /\ pushdown = NotCalled
    /\ IdleAccessVars
    /\ IdleOtherVars

NextConc ==
    \/ Create
    \/ \E s \in ScanIds :
          \/ \E projection \in ConcProjections :
                ScanStart(s, projection, <<>>, None)
          \/ VisitFile(s)
          \/ IterError(s)
          \/ EnumDone(s)
          \/ AccessFile(s)
          \/ Build(s)

SpecConc == InitConc /\ [][NextConc]_vars

\* The enumeration of a scan that runs alone: the callback on each file in
\* turn, up to a panic
RECURSIVE EnumAlone(_, _, _)
EnumAlone(scan_context, scan_state, files) ==
    IF files = <<>> THEN [status |-> "Ok", ctx |-> scan_context]
    ELSE LET r == handle_scan_file(scan_context, scan_state, Head(files))
         IN  IF r.status = "Panic" THEN r
             ELSE EnumAlone(r.ctx, scan_state, Tail(files))

\* The access loop of a scan that runs alone, on a steady object store: the
\* file list, or the result the loop ended the scan with
RECURSIVE AccessAlone(_, _)
AccessAlone(files, partitioned_files) ==
    IF files = <<>> THEN [status |-> "Ok", partitioned_files |-> partitioned_files]
    ELSE LET file == Head(files)
             plan == AccessPlanFor(file, CHOOSE m \in log.storage.metadata : TRUE,
                                   CHOOSE l \in log.storage.layouts : TRUE)
         IN  CASE plan.status = "NoPlan" ->
                    AccessAlone(Tail(files),
                                Append(partitioned_files, file.partitioned_file))
               [] plan.status = "Ok" ->
                    AccessAlone(Tail(files),
                                Append(partitioned_files,
                                       [file.partitioned_file EXCEPT
                                          !.extensions = Some(plan.row_groups)]))
               [] plan.status = "Err" ->
                    [status |-> "Ended",
                     result |-> [status |-> "Err",
                                 error |-> <<plan.error, file.partitioned_file.path[3]>>]]
               [] plan.status = "Panic" ->
                    [status |-> "Ended", result |-> [status |-> "Panic"]]

\* What scan(projection, filters, limit) returns when it runs alone on the
\* table, against the log and a steady object store
ScanAlone(projection, filters, limit) ==
    LET projected == project_delta_schema(table.arrow_schema, table.delta_schema,
                                          projection)
        scan_state == [table_root |-> log.table_root,
                       partition_columns |-> log.partition_columns,
                       logical_schema |-> projected]
        enum == EnumAlone([errs |-> <<>>, files |-> <<>>], scan_state, log.files)
    IN  IF FALSE \in log.storage.batches
        THEN [status |-> "Err", error |-> <<"External", Len(log.files)>>]
        ELSE IF enum.status = "Panic" THEN [status |-> "Panic"]
        ELSE IF enum.ctx.errs /= <<>>
        THEN [status |-> "Err", error |-> Head(enum.ctx.errs)]
        ELSE LET access == AccessAlone(enum.ctx.files, <<>>)
             IN  IF access.status = "Ended" THEN access.result
                 ELSE [status |-> "Ok",
                       plan |-> [file_schema |-> table.arrow_file_schema,
                                 limit |-> limit,
                                 projection |-> projection,
                                 file_group |-> access.partitioned_files,
                                 table_partition_cols |-> table.arrow_partition_cols,
                                 predicate |-> create_physical_expr(ScanFilter(filters))]]

\* Every scan that ended returned what it returns when run alone
ReturnsAsAlone ==
    \A s \in ScanIds :
       scan[s].pc = "done" =>
          scan[s].result = ScanAlone(scan[s].projection, scan[s].filters, scan[s].limit)

\* A step leaves the built table and the log as they are and changes the
\* state of one scan at most
StepOfOneScan ==
    /\ log' = log
    /\ table.status /= "NotCalled" => table' = table
    /\ \A s, u \in ScanIds : s /= u => (scan'[s] = scan[s] \/ scan'[u] = scan[u])

\* C16: concurrent scans of one DeltaTable are independent: no step of a
\* scan writes the table, the log or the state of another scan (its
\* snapshot, scan state and ScanContext are its own), and under every
\* interleaving each scan returns what it returns when run alone against
\* the same log state.
C16_ConcurrentScansIndependent ==
    [] ReturnsAsAlone /\ [][StepOfOneScan]_vars

\* C16 witness: two scans with different projections ended after their
\* steps interleaved, one with a plan holding the file and its access plan,
\* the other with a panic
C16_Witness ==
    /\ scan["s1"].pc = "done"
    /\ scan["s2"].pc = "done"
    /\ scan["s1"].projection = None
    /\ scan["s2"].projection = Some(<<1>>)
    /\ scan["s1"].result.status = "Ok"
    /\ Len(scan["s1"].result.plan.file_group) = 1
    /\ scan["s1"].result.plan.file_group[1].extensions.kind = "Some"
    /\ scan["s2"].result.status = "Panic"

(***************************************************************************)
(* Specification of scans of a table whose log changes after the           *)
(* DeltaTable was built: a later commit gives the table another schema,    *)
(* other partition columns and a file; every scan resolves the snapshot    *)
(* of the log as it then is.                                               *)
(***************************************************************************)
InitEvolve ==
    /\ \E pc \in Partitionings(ScanSchema) :
          log = [schema |-> ScanSchema, partition_columns |-> pc, files |-> <<>>,
                 table_root |-> TableRoot, readable |-> TRUE,
                 storage |-> AnyStorage]
    /\ table = NotCalled
    /\ scan = [s \in ScanIds |-> IdleScan]
    /\ pushdown = NotCalled
    /\ IdleAccessVars
    /\ IdleOtherVars

\* A commit by another writer, between construction and the scans: the
\* snapshot that table.snapshot(engine, None) resolves from then on has
\* another schema or partitioning, and at most one file
LogChange ==
    /\ table.status = "Ok"
    /\ \A s \in ScanIds : scan[s].pc = "idle"
    /\ log.schema = table.delta_schema
    /\ get_partition_schema(log) = table.arrow_partition_cols
    /\ \E sch \in LogSchemas : \E pc \in Partitionings(sch) :
         \E files \in FileListsUpTo(pc, 1) :
           /\ <<sch, pc>> /= <<log.schema, log.partition_columns>>
           /\ log' = [log EXCEPT !.schema = sch, !.partition_columns = pc,
                                  !.files = files]
    /\ UNCHANGED <<table, scan, pushdown>>
    /\ UNCHANGED accessVars
    /\ UNCHANGED otherVars

NextEvolve ==
    \/ Create
    \/ LogChange
    \/ /\ table.status = "Ok"
       /\ \E projection \in Projections(Len(table.arrow_schema)) :
             ScanStart("s1", projection, <<>>, None)
    \/ VisitFile("s1")
    \/ IterError("s1")
    \/ EnumDone("s1")
    \/ AccessFile("s1")
    \/ Build("s1")

SpecEvolve == InitEvolve /\ [][NextEvolve]_vars

\* C22: the schema request and the scan state of a scan hold fields of the
\* snapshot the scan resolved, and the file schema and partition field list
\* of a returned plan are those of that snapshot, also when the log changed
\* after the table was built.
C22_SchemasOfResolvedSnapshot ==
    \A s \in ScanIds :
       /\ scan[s].pc /= "idle" =>
             /\ \A k \in 1..Len(scan[s].projected_delta_schema) :
                   \E i \in 1..Len(log.schema) :
                      log.schema[i] = scan[s].projected_delta_schema[k]
             /\ scan[s].projection = None =>
                   scan[s].projected_delta_schema = log.schema
             /\ scan[s].scan_state.partition_columns = log.partition_columns
       /\ scan[s].result.status = "Ok" =>
             /\ scan[s].result.plan.file_schema = get_file_schema(log)
             /\ scan[s].result.plan.table_partition_cols = get_partition_schema(log)

(***************************************************************************)
(* Specification of the table location: a location is drawn, then either   *)
(* ensure_folder_location is called on it, and again on its result, as the *)
(* unit test does, or DeltaTable::from opens the table at it.              *)
(***************************************************************************)
\* The characters locations are written with
LocationChars == {"s", ":", "/", "b"}

\* The locations of test_get_table_location
BucketFolder ==
    <<"s", "3", ":", "/", "/", "m", "y", "_", "b", "u", "c", "k", "e", "t", "/">>
Bucket == SubSeq(BucketFolder, 1, Len(BucketFolder) - 1)

InitLocation ==
    /\ \E table_location \in
              SeqUpTo(LocationChars, MaxLocationLen) \cup {BucketFolder, Bucket} :
          location = [status |-> "Given", table_location |-> table_location]
    /\ mapped = NotCalled
    /\ cli = NotCalled
    /\ IdleAccessVars
    /\ IdleScanVars

\* A direct call of ensure_folder_location
CallEnsureFolderLocation ==
    /\ location.status = "Given"
    /\ location' = [status |-> "Ensured",
                    table_location |-> location.table_location,
                    folder |-> ensure_folder_location(location.table_location)]
    /\ UNCHANGED <<accessVars, scanVars, mapped, cli>>

\* ensure_folder_location called on its own result
CallEnsureFolderLocationAgain ==
    /\ location.status = "Ensured"
    /\ location' = [status |-> "EnsuredAgain",
                    table_location |-> location.table_location,
                    folder |-> location.folder,
                    again |-> ensure_folder_location(location.folder)]
    /\ UNCHANGED <<accessVars, scanVars, mapped, cli>>

\* The first statement of DeltaTable::from: the table is opened at the
\* folder location, which the kernel accepts or refuses
TryFromUri ==
    /\ location.status = "Given"
    /\ \E accepted \in BOOLEAN :
          location' = [status |-> "Opened",
                       table_location |-> location.table_location,
                       uri |-> ensure_folder_location(location.table_location),
                       table |-> IF accepted THEN "Ok" ELSE "Err"]
    /\ UNCHANGED <<accessVars, scanVars, mapped, cli>>

NextLocation ==
    CallEnsureFolderLocation \/ CallEnsureFolderLocationAgain \/ TryFromUri

SpecLocation == InitLocation /\ [][NextLocation]_vars

\* C11: the folder location ends with the separator; it is the given
\* location when that already ends with the separator, else the given
\* location followed by exactly one separator; normalising it again changes
\* nothing; and DeltaTable::from opens the table at the folder location.
C11_FolderLocation ==
    /\ location.status \in {"Ensured", "EnsuredAgain"} =>
          LET given == location.table_location
              folder == location.folder
          IN  /\ folder /= <<>> /\ folder[Len(folder)] = "/"
              /\ (given /= <<>> /\ given[Len(given)] = "/") => folder = given
              /\ ~(given /= <<>> /\ given[Len(given)] = "/") =>
                    /\ Len(folder) = Len(given) + 1
                    /\ SubSeq(folder, 1, Len(given)) = given
    /\ location.status = "EnsuredAgain" => location.again = location.folder
    /\ location.status = "Opened" =>
          LET given == location.table_location
          IN  /\ location.uri /= <<>> /\ location.uri[Len(location.uri)] = "/"
              /\ SubSeq(location.uri, 1, Len(given)) = given
              /\ Len(location.uri) \in {Len(given), Len(given) + 1}
              /\ Len(location.uri) = Len(given) <=> 
                    (given /= <<>> /\ given[Len(given)] = "/")

\* C11 witness: the location of the unit test that lacks the separator was
\* normalised to the one that has it, and normalised again
C11_Witness ==
    /\ location.status = "EnsuredAgain"
    /\ location.table_location = Bucket
    /\ location.folder = BucketFolder
    /\ location.again = BucketFolder

(***************************************************************************)
(* Specification of the type mapper: a Delta data type is drawn, then      *)
(* map_delta_data_type_to_arrow_data_type is applied to it, and once more. *)
(***************************************************************************)
\* The primitive types of the log schema; the decimals are of precision
\* 1..38 and scale 0..precision, as the Delta protocol has them
PrimitiveNames ==
    {"String", "Long", "Integer", "Short", "Byte", "Float", "Double", "Boolean",
     "Binary", "Date", "Timestamp", "TimestampNtz"}
PrimitiveTypes ==
    {Primitive(n) : n \in PrimitiveNames}
       \cup {Decimal(1, 0), Decimal(10, 2), Decimal(38, 38)}

\* The types nested at most depth deep: arrays, maps keyed by a string or
\* an integer, and structs of one or two fields over the types one level
\* less deep
RECURSIVE DeltaTypes(_)
DeltaTypes(depth) ==
    IF depth = 0 THEN PrimitiveTypes
    ELSE LET inner == DeltaTypes(depth - 1)
         IN  inner
             \cup {ArrayType(t, n) : t \in inner, n \in BOOLEAN}
             \cup {MapType(k, t) : k \in {Primitive("String"), Primitive("Integer")},
                                   t \in inner}
             \cup {StructType(<<StructField("x", t, n)>>) : t \in inner, n \in BOOLEAN}
             \cup {StructType(<<StructField("x", t, TRUE),
                                StructField("y", Primitive("Long"), FALSE)>>) :
                      t \in inner}

InitTypes ==
    /\ \E t \in DeltaTypes(MaxTypeDepth) :
          mapped = [status |-> "Given", data_type |-> t]
    /\ location = NotCalled
    /\ cli = NotCalled
    /\ IdleAccessVars
    /\ IdleScanVars

\* A call of the mapper
CallMapper ==
    /\ mapped.status = "Given"
    /\ mapped' = [status |-> "Mapped", data_type |-> mapped.data_type,
                  arrow |-> map_delta_data_type_to_arrow_data_type(mapped.data_type)]
    /\ UNCHANGED <<accessVars, scanVars, location, cli>>

\* A second call of the mapper on the same type
CallMapperAgain ==
    /\ mapped.status = "Mapped"
    /\ mapped' = [status |-> "MappedAgain", data_type |-> mapped.data_type,
                  arrow |-> mapped.arrow,
                  again |-> map_delta_data_type_to_arrow_data_type(mapped.data_type)]
    /\ UNCHANGED <<accessVars, scanVars, location, cli>>

NextTypes == CallMapper \/ CallMapperAgain

SpecTypes == InitTypes /\ [][NextTypes]_vars

\* The engine type of each primitive type that carries no parameter
PrimitiveTable ==
    [String |-> "Utf8", Long |-> "Int64", Integer |-> "Int32", Short |-> "Int16",
     Byte |-> "Int8", Float |-> "Float32", Double |-> "Float64",
     Boolean |-> "Boolean", Binary |-> "Binary", Date |-> "Date32"]

\* Engine type a is what the contract gives for Delta type t
RECURSIVE Conforms(_, _)
Conforms(t, a) ==
    CASE t.kind = "Primitive" /\ t.type \in DOMAIN PrimitiveTable ->
           a = [kind |-> PrimitiveTable[t.type]]
      [] t.kind = "Primitive" /\ t.type = "Timestamp" ->
           a = [kind |-> "Timestamp", unit |-> "Microsecond", tz |-> <<"UTC">>]
      [] t.kind = "Primitive" /\ t.type = "TimestampNtz" ->
           a = [kind |-> "Timestamp", unit |-> "Microsecond", tz |-> <<>>]
      [] t.kind = "Primitive" /\ t.type = "Decimal" ->
           a = [kind |-> "Decimal128", precision |-> t.precision, scale |-> t.scale]
      [] t.kind = "Array" ->
           /\ a.kind = "List"
           /\ a.field.name = "item"
           /\ a.field.nullable = t.contains_null
           /\ Conforms(t.element_type, a.field.data_type)
      [] t.kind = "Struct" ->
           /\ a.kind = "Struct"
           /\ Len(a.fields) = Len(t.fields)
           /\ \A i \in 1..Len(t.fields) :
                 /\ a.fields[i].name = t.fields[i].name
                 /\ a.fields[i].nullable = t.fields[i].nullable
                 /\ Conforms(t.fields[i].data_type, a.fields[i].data_type)
      [] t.kind = "Map" ->
           /\ a.kind = "Map"
           /\ a.sorted = FALSE
           /\ a.field.name = "key_value"
           /\ a.field.nullable = FALSE
           /\ a.field.data_type.kind = "Struct"
           /\ Len(a.field.data_type.fields) = 2
           /\ a.field.data_type.fields[1].name = "key"
           /\ a.field.data_type.fields[1].nullable = FALSE
           /\ Conforms(t.key_type, a.field.data_type.fields[1].data_type)
           /\ a.field.data_type.fields[2].name = "value"
           /\ a.field.data_type.fields[2].nullable = TRUE
           /\ Conforms(t.value_type, a.field.data_type.fields[2].data_type)
      [] OTHER -> FALSE

\* C17: the mapper gives every primitive, array, struct and map type an
\* engine type: the fixed one of each primitive, nested types mapped
\* recursively; mapping the same type a second time gives an equal result.
C17_MapperTotalAndFixed ==
    /\ mapped.status \in {"Mapped", "MappedAgain"} =>
          Conforms(mapped.data_type, mapped.arrow)
    /\ mapped.status = "MappedAgain" => mapped.again = mapped.arrow

\* C17 witness: a struct of an array of decimals and a long was mapped twice
C17_Witness ==
    /\ mapped.status = "MappedAgain"
    /\ mapped.data_type
         = StructType(<<StructField("x", ArrayType(Decimal(10, 2), FALSE), TRUE),
                        StructField("y", Primitive("Long"), FALSE)>>)
    /\ mapped.arrow.fields[1].data_type.field.data_type
         = [kind |-> "Decimal128", precision |-> 10, scale |-> 2]
    /\ mapped.arrow.fields[2] = Field("y", Arrow("Int64"), FALSE)

(***************************************************************************)
(* CLI: the Execute command reads a SQL file line by line and executes     *)
(* its statements.                                                         *)
(***************************************************************************)
\* str::starts_with("--") on a line held as its sequence of characters
starts_with_comment(line) == Len(line) >= 2 /\ line[1] = "-" /\ line[2] = "-"

\* str::trim_end: the line without its trailing whitespace
RECURSIVE trim_end(_)
trim_end(line) ==
    IF line /= <<>> /\ line[Len(line)] \in {" ", "\t"}
    THEN trim_end(SubSeq(line, 1, Len(line) - 1))
    ELSE line

\* query.contains(|c| c != '\n')
contains_non_newline(query) == \E i \in 1..Len(query) : query[i] /= "\n"

\* A faulty variant of push_line: the accumulator is not emptied after a
\* statement was executed
push_line_keeping(query, line) ==
    LET trimmed == trim_end(line)
        pushed == query \o trimmed
    IN  IF ends_with(trimmed, ";")
        THEN [run |-> TRUE, statement |-> pushed, query |-> pushed]
        ELSE [run |-> FALSE, query |-> Append(pushed, "\n")]

\* The Ok(line) arm: the trimmed line is pushed to the query, which is a
\* statement to execute when the line ends with ';' and is then emptied, and
\* else gets a newline
push_line(query, line) ==
    LET trimmed == trim_end(line)
        pushed == query \o trimmed
    IN  IF ends_with(trimmed, ";")
        THEN [run |-> TRUE, statement |-> pushed, query |-> <<>>]
        ELSE [run |-> FALSE, query |-> Append(pushed, "\n")]

\* What reader.lines() may yield: a line, or a read error
Line(text) == [ok |-> TRUE, text |-> text]
ReadError == [ok |-> FALSE]
CliLines ==
    {Line(t) : t \in {<<>>, <<" ">>, <<"a">>, <<";">>, <<"a", ";">>,
                       <<"a", ";", " ">>, <<"a", ";", "a">>, <<" ", "-", "-">>,
                       <<"-", "-", "a", ";">>, <<"-", "a">>}}
       \cup {ReadError}

InitCli ==
    /\ \E file \in SeqUpTo(CliLines, MaxLines) :
          cli = [pc |-> "open", file |-> file, lines |-> file, query |-> <<>>,
                 executed |-> <<>>]
    /\ location = NotCalled
    /\ mapped = NotCalled
    /\ IdleAccessVars
    /\ IdleScanVars

\* fs::File::open(sql_file), unwrapped
OpenFile ==
    /\ cli.pc = "open"
    /\ \E opened \in BOOLEAN :
          cli' = [cli EXCEPT !.pc = IF opened THEN "loop" ELSE "panic"]
    /\ UNCHANGED <<accessVars, scanVars, location, mapped>>

\* One iteration of the loop over reader.lines(): a comment line is
\* skipped, a read error ends the loop, any other line is pushed and the
\* query executed when the line closes it; a failed execution panics
ReadLine ==
    /\ cli.pc = "loop"
    /\ cli.lines /= <<>>
    /\ LET line == Head(cli.lines)
       IN  IF ~line.ok
           THEN cli' = [cli EXCEPT !.pc = "leftover"]
           ELSE IF starts_with_comment(line.text)
           THEN cli' = [cli EXCEPT !.lines = Tail(@)]
           ELSE LET r == push_line(cli.query, line.text)
                IN  IF r.run
                    THEN \E succeeded \in BOOLEAN :
                           cli' = [cli EXCEPT
                                     !.executed = Append(@, r.statement),
                                     !.query = IF succeeded THEN r.query ELSE @,
                                     !.lines = IF succeeded THEN Tail(@) ELSE @,
                                     !.pc = IF succeeded THEN "loop" ELSE "panic"]
                    ELSE cli' = [cli EXCEPT !.query = r.query, !.lines = Tail(@)]
    /\ UNCHANGED <<accessVars, scanVars, location, mapped>>

\* reader.lines() is exhausted
EndOfFile ==
    /\ cli.pc = "loop"
    /\ cli.lines = <<>>
    /\ cli' = [cli EXCEPT !.pc = "leftover"]
    /\ UNCHANGED <<accessVars, scanVars, location, mapped>>

\* After the loop: the left over query is executed unless it consists of
\* newlines only
LeftOver ==
    /\ cli.pc = "leftover"
    /\ IF contains_non_newline(cli.query)
       THEN \E succeeded \in BOOLEAN :
              cli' = [cli EXCEPT !.executed = Append(@, cli.query),
                                 !.pc = IF succeeded THEN "done" ELSE "panic"]
       ELSE cli' = [cli EXCEPT !.pc = "done"]
    /\ UNCHANGED <<accessVars, scanVars, location, mapped>>

NextCli == OpenFile \/ ReadLine \/ EndOfFile \/ LeftOver

SpecCli == InitCli /\ [][NextCli]_vars

\* The lines of a file up to its first read error
RECURSIVE Readable(_)
Readable(file) ==
    IF file = <<>> \/ ~Head(file).ok THEN <<>>
    ELSE <<Head(file)>> \o Readable(Tail(file))

\* The lines that count: the readable lines that do not start with "--",
\* without their trailing whitespace
Kept(file) ==
    LET lines == SelectSeq(Readable(file),
                           LAMBDA l : ~(Len(l.text) >= 2 /\ l.text[1] = "-"
                                                        /\ l.text[2] = "-"))
    IN  [i \in 1..Len(lines) |-> trim_end(lines[i].text)]

\* The positions of the lines that close a statement, and the k-th of them
Ends(kept) == {i \in 1..Len(kept) : kept[i] /= <<>> /\ kept[i][Len(kept[i])] = ";"}
NthEnd(kept, k) ==
    IF k = 0 THEN 0
    ELSE CHOOSE i \in Ends(kept) : Cardinality({j \in Ends(kept) : j <= i}) = k

\* Lines joined by newlines; and lines each followed by a newline
RECURSIVE JoinLines(_)
JoinLines(ls) ==
    IF ls = <<>> THEN <<>>
    ELSE IF Len(ls) = 1 THEN ls[1]
    ELSE ls[1] \o <<"\n">> \o JoinLines(Tail(ls))
RECURSIVE EndLines(_)
EndLines(ls) ==
    IF ls = <<>> THEN <<>> ELSE ls[1] \o <<"\n">> \o EndLines(Tail(ls))

\* The statements the kept lines close: the k-th is made of the lines after
\* the (k-1)-th closing line up to the k-th closing line
ClosedStatements(kept) ==
    [k \in 1..Cardinality(Ends(kept)) |->
        JoinLines(SubSeq(kept, NthEnd(kept, k - 1) + 1, NthEnd(kept, k)))]

\* The text after the last closing line
LeftOverText(kept) ==
    EndLines(SubSeq(kept, NthEnd(kept, Cardinality(Ends(kept))) + 1, Len(kept)))

\* The statements of a file, in file order: the closed ones, then the left
\* over text when it has a character other than newline
StatementsOf(file) ==
    LET kept == Kept(file)
        rest == LeftOverText(kept)
    IN  ClosedStatements(kept)
          \o (IF \E i \in 1..Len(rest) : rest[i] /= "\n" THEN <<rest>> ELSE <<>>)

\* The lines of the file the loop has gone through
Consumed == SubSeq(cli.file, 1, Len(cli.file) - Len(cli.lines))

\* C24: the executions made so far are the first statements of the file,
\* each once and in file order; while the loop runs they are exactly the
\* statements closed by the lines read so far and the accumulator holds the
\* text read since; when the command ends normally every statement of the
\* file was executed, the left over text only when it has a character other
\* than newline; a line starting with "--" is in no statement.
C24_StatementsOnceInFileOrder ==
    /\ Len(cli.executed) <= Len(StatementsOf(cli.file))
    /\ cli.executed = SubSeq(StatementsOf(cli.file), 1, Len(cli.executed))
    /\ cli.pc = "loop" =>
          /\ cli.executed = ClosedStatements(Kept(Consumed))
          /\ cli.query = LeftOverText(Kept(Consumed))
    /\ cli.pc = "done" => cli.executed = StatementsOf(cli.file)

\* C24 witness: a file of a comment line that looks like a statement, a
\* statement followed by a blank and an unclosed line was executed to its
\* end: two executions, the statement without the blank and the left over
C24_Witness ==
    /\ cli.pc = "done"
    /\ cli.file = <<Line(<<"-", "-", "a", ";">>), Line(<<"a", ";", " ">>), Line(<<"a">>)>>
    /\ cli.executed = <<<<"a", ";">>, <<"a", "\n">>>>
====
